---------------------------- MODULE Spec2Model ----------------------------
(***************************************************************************)
(* One node of the replicated append-only ledger: the blockchain.blocks    *)
(* table with its constraints and its append-only trigger, the in-memory   *)
(* chain of the Blockchain service, the POST /blocks/commit handler, the   *)
(* P2P BLOCK and CHAIN message handlers and the periodic verifier.  Every  *)
(* handler is cut at its awaits, so handlers interleave as they do on the  *)
(* Node.js event loop with a pooled PostgreSQL connection.                 *)
(***************************************************************************)
EXTENDS Integers, Sequences, FiniteSets, TLC

(***************************************************************************)
(* Bounds.                                                                 *)
(***************************************************************************)
\* number of digits of a hash (64 hex digits in the program; a digit is 0 or 1 here)
HashLen == 6
\* the store is never grown beyond this many rows (not counting the block it
\* may hold when the node starts)
MaxBlocks == 2
\* number of handlers that may be in flight at the same time
NumTasks == 2
\* nonces a miner tries: 1 .. MaxNonce
MaxNonce == 8
\* difficulties a client declares: 1 .. MaxDifficulty
MaxDifficulty == 1
\* plaintexts clients seal: 1 .. MaxData
MaxData == 2
\* peer connections that can be open at the same time
NumSockets == 2
\* nodes of a cluster
NumNodes == 3

(***************************************************************************)
(* Values.                                                                 *)
(***************************************************************************)
\* SQL NULL in a VARCHAR(64) column, a JS null hash
NULL_HASH == << >>
\* SQL NULL in the creator_id column
NULL_CREATOR == "null"
\* SQL NULL in verified_at
NULL_TIME == 0

\* a Buffer of len bytes, every byte equal to byte
Buf(len, byte) == [len |-> len, byte |-> byte]

RECURSIVE Repeat(_, _)
\* String.prototype.repeat
Repeat(d, n) == IF n <= 0 THEN << >> ELSE <<d>> \o Repeat(d, n - 1)

\* config.GENESIS_HASH: '0'.repeat(64)
GENESIS_HASH == Repeat(0, HashLen)

\* String.prototype.startsWith
StartsWith(s, prefix) ==
    /\ Len(prefix) <= Len(s)
    /\ \A i \in 1..Len(prefix) : s[i] = prefix[i]

\* blockchain.creators: c1 is an active creator, c2 has been deactivated
creators ==
    [c \in {"c1", "c2"} |->
        IF c = "c1" THEN [public_key_pem |-> "k1", is_active |-> TRUE,
                          display_name |-> "alice"]
                    ELSE [public_key_pem |-> "k2", is_active |-> FALSE,
                          display_name |-> "bob"]]

\* textual form of a creator id inside the hash input (null joins as '')
CreatorText(c) ==
    CASE c = "c1" -> <<1>>
      [] c = "c2" -> <<2>>
      [] OTHER    -> << >>

(***************************************************************************)
(* CryptoUtils (backend/src/utils/cryptoUtils.js).                         *)
(***************************************************************************)
RECURSIVE DecDigits(_)
\* Number.prototype.toString(): the decimal digits of n
DecDigits(n) == IF n < 10 THEN <<n>> ELSE DecDigits(n \div 10) \o <<n % 10>>

\* Buffer.toString('hex'): the number of hex digits and the digit pair that repeats
ToHex(buf) == <<2 * buf.len, buf.byte \div 16, buf.byte % 16>>

\* Buffer.from(hex, 'hex')
FromHex(hex) == Buf(hex[1] \div 2, hex[2] * 16 + hex[3])

RECURSIVE JoinPipe(_)
\* Array.prototype.join('|'); 16 stands for the '|' character
JoinPipe(parts) ==
    IF Len(parts) = 0 THEN << >>
    ELSE IF Len(parts) = 1 THEN parts[1]
    ELSE parts[1] \o <<16>> \o JoinPipe(Tail(parts))

\* CryptoUtils.buildHashInput
buildHashInput(b) ==
    JoinPipe(<< IF b.previous_hash = NULL_HASH THEN GENESIS_HASH ELSE b.previous_hash,
                ToHex(b.encrypted_data),
                ToHex(b.data_iv),
                ToHex(b.encrypted_data_key),
                DecDigits(b.nonce),
                DecDigits(b.created_at),
                CreatorText(b.creator_id),
                DecDigits(b.difficulty) >>)

RECURSIVE Mix(_, _)
\* the compression of the input characters into one number
Mix(s, acc) ==
    IF s = << >> THEN acc
    ELSE Mix(Tail(s), (acc * 31 + Head(s) + 7) % 1009)

RECURSIVE Digits(_, _)
\* n written with k binary digits, most significant first
Digits(n, k) ==
    IF k = 0 THEN << >> ELSE Digits(n \div 2, k - 1) \o <<n % 2>>

\* CryptoUtils.calculateHash: a digest of HashLen digits, never all zero
calculateHash(s) == Digits((Mix(s, 1) % (2^HashLen - 1)) + 1, HashLen)

\* CryptoUtils.signData: a signature names the key that made it and the data signed
signData(privateKey, data) == [signer |-> privateKey, msg |-> data]

\* Buffer.toString('hex') of a signature
SigToHex(sig) == [hex |-> sig]

\* Buffer.from(signature_hex, 'hex')
SigFromHex(h) == h.hex

\* CryptoUtils.verifySignature (the two keys of a pair carry one name)
verifySignature(publicKeyPem, data, signature) ==
    /\ signature.signer = publicKeyPem
    /\ signature.msg = data

(***************************************************************************)
(* The browser client: seal, mine, sign (frontend/src/utils/cryptoUtils.js)*)
(***************************************************************************)
\* AES-GCM appends a 16-byte tag to the ciphertext
TagBytes == 16
\* the AES-GCM IV has 16 bytes
IvBytes == 16
\* an AES key wrapped under RSA-2048 has 256 bytes
KeyBytes == 256
\* new Date().toISOString() on the client
ClientNow == 1

\* the block a client is about to mine: everything but nonce, hash and signature
BlockData(prev, data, creator, difficulty) ==
    [previous_hash      |-> prev,
     encrypted_data     |-> Buf(TagBytes + 1, data),
     data_iv            |-> Buf(IvBytes, 7),
     encrypted_data_key |-> Buf(KeyBytes, 9),
     created_at         |-> ClientNow,
     creator_id         |-> creator,
     difficulty         |-> difficulty]

\* the block data with a nonce filled in
WithNonce(blockData, n) ==
    [previous_hash      |-> blockData.previous_hash,
     encrypted_data     |-> blockData.encrypted_data,
     data_iv            |-> blockData.data_iv,
     encrypted_data_key |-> blockData.encrypted_data_key,
     created_at         |-> blockData.created_at,
     creator_id         |-> blockData.creator_id,
     difficulty         |-> blockData.difficulty,
     nonce              |-> n]

\* hashData(buildHashInput(...)) of the block data under nonce n
HashWithNonce(blockData, n) == calculateHash(buildHashInput(WithNonce(blockData, n)))

\* nonces in range whose hash has the required prefix
GoodNonces(blockData, difficulty) ==
    {n \in 1..MaxNonce : StartsWith(HashWithNonce(blockData, n), Repeat(0, difficulty))}

\* the least element of a non-empty set of numbers
Least(S) == CHOOSE n \in S : \A m \in S : n <= m

\* mineBlock: the first nonce, counting from 1, whose hash has the prefix
mineBlock(blockData, difficulty) == Least(GoodNonces(blockData, difficulty))

\* the body of POST /blocks/commit a client sends after mining with nonce n
\* and signing with key k
CommitBody(blockData, n, k) ==
    [creator_id             |-> blockData.creator_id,
     previous_hash          |-> blockData.previous_hash,
     block_hash             |-> HashWithNonce(blockData, n),
     nonce                  |-> n,
     difficulty             |-> blockData.difficulty,
     encrypted_data_hex     |-> ToHex(blockData.encrypted_data),
     data_iv_hex            |-> ToHex(blockData.data_iv),
     encrypted_data_key_hex |-> ToHex(blockData.encrypted_data_key),
     data_size              |-> blockData.encrypted_data.len + blockData.data_iv.len
                                  + blockData.encrypted_data_key.len,
     signature_hex          |-> SigToHex(signData(k, HashWithNonce(blockData, n))),
     created_at_iso         |-> blockData.created_at]

\* what clients do: "none" is the client of BlockCreation.jsx; the others sign
\* with a key that is not the creator's, skip the nonce search, swap the
\* ciphertext after mining, or act for the deactivated creator
ClientFaults == {"none", "badsig", "nopow", "swapped", "inactive"}

\* another plaintext than data
OtherData(data) == IF data = 1 THEN MaxData ELSE 1

\* the commit bodies a client can send for a preparation against prev
CommitBodies(prev, data, difficulty, fault) ==
    LET bd == BlockData(prev, data, IF fault = "inactive" THEN "c2" ELSE "c1", difficulty)
        key == IF fault \in {"badsig", "inactive"} THEN "k2" ELSE "k1"
        bad == (1..MaxNonce) \ GoodNonces(bd, difficulty)
    IN  IF fault = "nopow"
          THEN IF bad = {} THEN {} ELSE {CommitBody(bd, Least(bad), key)}
        ELSE IF GoodNonces(bd, difficulty) = {} THEN {}
        ELSE IF fault = "swapped"
          THEN {[CommitBody(bd, mineBlock(bd, difficulty), key)
                   EXCEPT !.encrypted_data_hex = ToHex(Buf(TagBytes + 1, OtherData(data)))]}
        ELSE {CommitBody(bd, mineBlock(bd, difficulty), key)}

\* the commit body of the block a store may hold when the node starts: an
\* earlier client committed it on the empty chain, with a plaintext of its own
StartBody ==
    CHOOSE b \in CommitBodies(GENESIS_HASH, MaxData + 1, 1, "none") : TRUE

\* the commit bodies clients can send for preparations against the hashes of
\* prevs: any plaintext from a client that follows BlockCreation.jsx, the first
\* plaintext from the others
BodiesAt(prevs) ==
    UNION {CommitBodies(p, d, k, "none") :
             p \in prevs, d \in 1..MaxData, k \in 1..MaxDifficulty}
    \cup UNION {CommitBodies(p, 1, k, f) :
             p \in prevs, k \in 1..MaxDifficulty, f \in ClientFaults}

RECURSIVE HashesWithin(_)
\* the sentinel and the hashes of the blocks at most n links away from it
HashesWithin(n) ==
    IF n = 0 THEN {GENESIS_HASH, StartBody.block_hash}
    ELSE LET nearer == HashesWithin(n - 1)
         IN  nearer \cup {b.block_hash : b \in BodiesAt(nearer)}

\* every commit body a client can send while the store holds at most MaxBlocks
\* rows, tabulated once: a stored block is at most 2 * MaxBlocks - 1 links from
\* the sentinel (a peer's block MaxBlocks links away, then commits on top of it)
AllBodies == BodiesAt(HashesWithin(2 * MaxBlocks - 1))

(***************************************************************************)
(* State of the node.                                                      *)
(***************************************************************************)
VARIABLES
    db,        \* the rows of blockchain.blocks
    chain,     \* Blockchain.chain, the in-memory view
    tasks,     \* the request handlers, message handlers and verifier ticks in
               \* flight, each cut at its awaits
    sent,      \* the messages the step just taken handed to the peers' sockets
    audit,     \* the rows of audit.events the verifier has written
    sockets,   \* P2pServer.sockets, the open peer connections
    config,    \* config.js: what the process read from its environment
    cluster    \* several nodes and the BLOCK messages in flight between them

vars == <<db, chain, tasks, sent, audit, sockets, config, cluster>>

\* the step writes nothing to the sockets and nothing to audit.events, and no
\* connection opens or closes; the configuration never changes
Quiet == sent' = << >> /\ UNCHANGED <<audit, sockets, config, cluster>>

\* the peer connections there can be
Sockets == 1..NumSockets

Tasks == 1..NumTasks

\* a handler slot with no request in it
Idle == [kind |-> "none", pc |-> "idle", req |-> << >>, blk |-> << >>,
         rows |-> << >>, status |-> "none"]

\* the slot the next request or message takes: the first one that is empty
Free(t) ==
    /\ tasks[t].pc = "idle"
    /\ \A u \in 1..(t - 1) : tasks[u].pc # "idle"

(***************************************************************************)
(* The store: blockchain.blocks, its constraints and its trigger           *)
(* (backend/src/database/db.js).                                           *)
(***************************************************************************)
\* CHECK (difficulty >= 1 AND difficulty <= 10)
DbMinDifficulty == 1
DbMaxDifficulty == 10

\* the CHECK constraints of a table without valid_genesis_block
ChecksHoldNoGenesis(row) ==
    /\ row.difficulty >= DbMinDifficulty /\ row.difficulty <= DbMaxDifficulty
    /\ row.data_size > 0

\* the CHECK constraints of the table, valid_genesis_block included
ChecksHold(row) ==
    /\ row.difficulty >= DbMinDifficulty /\ row.difficulty <= DbMaxDifficulty
    /\ row.data_size > 0
    /\ \/ (row.previous_hash = NULL_HASH /\ row.block_number = 1)
       \/ (row.previous_hash # NULL_HASH /\ row.block_number > 1)

\* creator_id REFERENCES blockchain.creators
ForeignKeyHolds(row) ==
    row.creator_id = NULL_CREATOR \/ row.creator_id \in DOMAIN creators

\* an INSERT without the unique index on block_hash
InsertIgnoringHash(table, row) ==
    IF ~ChecksHold(row) THEN "error"
    ELSE IF \E r \in table : r.block_number = row.block_number THEN "error"
    ELSE IF ~ForeignKeyHolds(row) THEN "error"
    ELSE "inserted"

\* an INSERT that no constraint stops
InsertAlways(table, row) == "inserted"

\* INSERT ... ON CONFLICT (block_hash) DO NOTHING against the rows of table:
\* "inserted", "conflict" (rowCount 0) or "error" (the query rejects)
InsertOnConflict(table, row) ==
    IF ~ChecksHold(row) THEN "error"
    ELSE IF \E r \in table : r.block_hash = row.block_hash THEN "conflict"
    ELSE IF \E r \in table : r.block_number = row.block_number THEN "error"
    ELSE IF ~ForeignKeyHolds(row) THEN "error"
    ELSE "inserted"

\* a plain INSERT: a block_hash already present is a unique violation
InsertPlain(table, row) ==
    IF InsertOnConflict(table, row) = "inserted" THEN "inserted" ELSE "error"

\* prevent_blockchain_tampering, TG_OP = 'UPDATE': TRUE when the row may change
TriggerAllowsUpdate(old, new) == old.verified # new.verified

\* a trigger that lets a DELETE through
TriggerLetsDelete(old) == TRUE

\* prevent_blockchain_tampering, TG_OP = 'DELETE': TRUE when the row may go
TriggerAllowsDelete(old) == FALSE

\* DELETE FROM blockchain.blocks: whether it goes through (the trigger raises
\* for no row) and the table the transaction sees afterwards
DeleteAll(table) ==
    IF \A r \in table : TriggerAllowsDelete(r) THEN [ok |-> TRUE, table |-> {}]
    ELSE [ok |-> FALSE, table |-> table]

RECURSIVE OrderByBlockNumber(_)
\* SELECT * FROM blockchain.blocks ORDER BY block_number ASC
OrderByBlockNumber(rows) ==
    IF rows = {} THEN << >>
    ELSE LET first == CHOOSE r \in rows : \A q \in rows : r.block_number <= q.block_number
         IN  <<first>> \o OrderByBlockNumber(rows \ {first})

(***************************************************************************)
(* Blockchain service (backend/src/services/blockchain.js).                *)
(***************************************************************************)
RECURSIVE ParseDec(_)
\* BigInt(string), Number(string)
ParseDec(s) == IF s = << >> THEN 0 ELSE 10 * ParseDec(SubSeq(s, 1, Len(s) - 1)) + s[Len(s)]

\* the rows.map of loadChainFromDB: block_number and nonce become strings
LoadMap(rows) ==
    [i \in 1..Len(rows) |->
        [rows[i] EXCEPT !.block_number = DecDigits(@), !.nonce = DecDigits(@)]]

\* JS null where a block is expected
NoBlock == [block_number |-> << >>, block_hash |-> NULL_HASH]

\* getLatestBlock: the last element of the in-memory chain, or null
getLatestBlock == IF Len(chain) > 0 THEN chain[Len(chain)] ELSE NoBlock

\* JSON.stringify of a Buffer
BufferToJSON(buf) == [type |-> "Buffer", data |-> buf]

\* JSON.stringify of a block: what goes over a socket
BlockToJSON(b) ==
    [b EXCEPT !.encrypted_data = BufferToJSON(@), !.data_iv = BufferToJSON(@),
              !.encrypted_data_key = BufferToJSON(@), !.signature = BufferToJSON(@)]

\* JSON.stringify of a field that holds a Buffer or the parsed JSON of one
FieldToJSON(x) == IF "data" \in DOMAIN x THEN x ELSE BufferToJSON(x)

\* a broadcast that hands every socket the message twice
broadcastTwice(block) ==
    [i \in 1..(2 * Len(sockets)) |->
        [to    |-> sockets[(i + 1) \div 2],
         type  |-> "BLOCK",
         block |-> BlockToJSON(block)]]

\* a broadcast that stops after the first socket
broadcastFirst(block) ==
    [i \in 1..(IF Len(sockets) > 0 THEN 1 ELSE 0) |->
        [to    |-> sockets[i],
         type  |-> "BLOCK",
         block |-> [block EXCEPT !.encrypted_data = FieldToJSON(@),
                                 !.data_iv = FieldToJSON(@),
                                 !.encrypted_data_key = FieldToJSON(@),
                                 !.signature = FieldToJSON(@)]]]

\* broadcastBlock: every socket of this.sockets is handed the BLOCK message
broadcastBlock(block) ==
    [i \in 1..Len(sockets) |->
        [to    |-> sockets[i],
         type  |-> "BLOCK",
         block |-> [block EXCEPT !.encrypted_data = FieldToJSON(@),
                                 !.data_iv = FieldToJSON(@),
                                 !.encrypted_data_key = FieldToJSON(@),
                                 !.signature = FieldToJSON(@)]]]

\* block.f?.data ? Buffer.from(block.f.data) : Buffer.from(block.f || [])
BufferOf(x) == IF "data" \in DOMAIN x THEN x.data ELSE x

\* Buffer.from(block.f?.data || [])
BufferOfData(x) == IF "data" \in DOMAIN x THEN x.data ELSE Buf(0, 0)

\* blockToInsert of addBlock, for a block built by the commit route (Buffers)
\* or parsed from a BLOCK message (JSON)
BlockToInsert(block) ==
    [block_number       |-> block.block_number,
     creator_id         |-> block.creator_id,
     previous_hash      |-> block.previous_hash,
     block_hash         |-> block.block_hash,
     nonce              |-> block.nonce,
     difficulty         |-> block.difficulty,
     encrypted_data     |-> BufferOf(block.encrypted_data),
     data_iv            |-> BufferOf(block.data_iv),
     encrypted_data_key |-> BufferOf(block.encrypted_data_key),
     data_size          |-> block.data_size,
     signature          |-> BufferOf(block.signature),
     created_at         |-> block.created_at]

\* the essential-field test of addBlock
EssentialFieldsPresent(block) ==
    block.block_hash # << >> /\ block.block_number # << >> /\ block.nonce # << >>

\* the row the INSERT of addBlock writes: it names no verified column, so the
\* column defaults apply
InsertedByAddBlock(block) ==
    [block_number       |-> ParseDec(block.block_number),
     creator_id         |-> block.creator_id,
     previous_hash      |-> block.previous_hash,
     block_hash         |-> block.block_hash,
     nonce              |-> ParseDec(block.nonce),
     difficulty         |-> block.difficulty,
     encrypted_data     |-> block.encrypted_data,
     data_iv            |-> block.data_iv,
     encrypted_data_key |-> block.encrypted_data_key,
     data_size          |-> block.data_size,
     signature          |-> block.signature,
     created_at         |-> block.created_at,
     verified           |-> FALSE,
     verified_at        |-> NULL_TIME]

\* the row an INSERT of replaceChain writes for a block of the received chain
InsertedByReplaceChain(block) ==
    [block_number       |-> ParseDec(block.block_number),
     creator_id         |-> block.creator_id,
     previous_hash      |-> block.previous_hash,
     block_hash         |-> block.block_hash,
     nonce              |-> ParseDec(block.nonce),
     difficulty         |-> block.difficulty,
     encrypted_data     |-> BufferOfData(block.encrypted_data),
     data_iv            |-> BufferOfData(block.data_iv),
     encrypted_data_key |-> BufferOfData(block.encrypted_data_key),
     data_size          |-> block.data_size,
     signature          |-> BufferOfData(block.signature),
     created_at         |-> block.created_at,
     verified           |-> block.verified,
     verified_at        |-> block.verified_at]

(***************************************************************************)
(* POST /blocks/prepare-mining (router.post('/prepare-mining')).           *)
(***************************************************************************)
\* the names clients ask with: alice is an active creator, bob has been
\* deactivated, carol is no creator
DisplayNames == {"alice", "bob", "carol"}

\* SELECT creator_id, public_key_pem FROM blockchain.creators
\* WHERE display_name = $1 AND is_active = true
ActiveCreatorsNamed(name) ==
    {c \in DOMAIN creators : creators[c].display_name = name /\ creators[c].is_active}

\* config.DIFFICULTY, the difficulty clients are told to mine with
DIFFICULTY == config.DIFFICULTY

\* the error of the route
PrepareNotFound == "NotFoundError: Creator not found or inactive"

\* a previousHashForCalc that is null on an empty chain
PreviousHashOrNull(lastBlock) ==
    IF lastBlock = NoBlock THEN NULL_HASH ELSE lastBlock.block_hash

\* previousHashForCalc: lastBlock ? lastBlock.block_hash : GENESIS_HASH
PreviousHashForCalc(lastBlock) ==
    IF lastBlock = NoBlock THEN GENESIS_HASH ELSE lastBlock.block_hash

\* the creator row comes back: the route throws, or reads the tip and builds
\* the response it sends
PrepareMining(t) ==
    /\ Free(t)
    /\ \E name \in DisplayNames :
         LET found == ActiveCreatorsNamed(name)
         IN  tasks' = [tasks EXCEPT ![t] =
               IF found = {}
                 THEN [Idle EXCEPT !.kind = "prepare", !.pc = "respond",
                                   !.req = [display_name |-> name],
                                   !.status = PrepareNotFound]
               ELSE LET c == CHOOSE c \in found : TRUE
                    IN  [Idle EXCEPT !.kind = "prepare", !.pc = "respond",
                                     !.req = [display_name |-> name],
                                     !.status = "200",
                                     !.blk = [creator_id     |-> c,
                                              public_key_pem |-> creators[c].public_key_pem,
                                              previous_hash  |->
                                                  PreviousHashForCalc(getLatestBlock),
                                              difficulty     |-> DIFFICULTY]]]
    /\ UNCHANGED <<db, chain>>
    /\ Quiet

\* the response reaches the client
PrepareRespond(t) ==
    /\ tasks[t].kind = "prepare" /\ tasks[t].pc = "respond"
    /\ tasks' = [tasks EXCEPT ![t] = Idle]
    /\ UNCHANGED <<db, chain>>
    /\ Quiet

(***************************************************************************)
(* POST /blocks/commit (router.post('/commit')).                           *)
(***************************************************************************)
\* newBlockData built by the route from the body and the tip it read
NewBlockData(body, lastBlock) ==
    [block_number       |-> IF lastBlock = NoBlock THEN DecDigits(1)
                            ELSE DecDigits(ParseDec(lastBlock.block_number) + 1),
     creator_id         |-> body.creator_id,
     previous_hash      |-> IF lastBlock = NoBlock THEN NULL_HASH
                            ELSE lastBlock.block_hash,
     block_hash         |-> body.block_hash,
     nonce              |-> DecDigits(body.nonce),
     difficulty         |-> body.difficulty,
     encrypted_data     |-> FromHex(body.encrypted_data_hex),
     data_iv            |-> FromHex(body.data_iv_hex),
     encrypted_data_key |-> FromHex(body.encrypted_data_key_hex),
     data_size          |-> body.data_size,
     signature          |-> SigFromHex(body.signature_hex),
     created_at         |-> body.created_at_iso]

\* the row of that earlier block
StartRow == InsertedByAddBlock(BlockToInsert(NewBlockData(StartBody, NoBlock)))

\* the store may still grow
Room == Cardinality(db \ {StartRow}) < MaxBlocks

\* the store holds a block with this hash
Stored(hash) == \E r \in db : r.block_hash = hash

\* the hashes a client can have learnt from this node (prepare-mining, GET /blocks)
KnownHashes == {GENESIS_HASH} \cup {r.block_hash : r \in db}

\* the errors the route throws: no active creator, signature, proof of work
CreatorMissing == "NotFoundError: Creator specified in the block not found or inactive"
SignatureInvalid == "BlockchainError: Invalid digital signature for the submitted block"
ProofOfWorkFailed == "BlockchainError: Proof-of-Work validation failed"
CommitErrors == {CreatorMissing, SignatureInvalid, ProofOfWorkFailed}

\* a route that does not verify the signature
CommitChecksNoSignature(body) ==
    IF ~(body.creator_id \in DOMAIN creators /\ creators[body.creator_id].is_active)
      THEN CreatorMissing
    ELSE IF ~StartsWith(body.block_hash, Repeat(0, body.difficulty))
      THEN ProofOfWorkFailed
    ELSE "pass"

\* a route that checks the proof of work before the signature
CommitChecksWorkFirst(body) ==
    IF ~(body.creator_id \in DOMAIN creators /\ creators[body.creator_id].is_active)
      THEN CreatorMissing
    ELSE IF ~StartsWith(body.block_hash, Repeat(0, body.difficulty))
      THEN ProofOfWorkFailed
    ELSE IF ~verifySignature(creators[body.creator_id].public_key_pem,
                             body.block_hash, SigFromHex(body.signature_hex))
      THEN SignatureInvalid
    ELSE "pass"

\* what the route answers to a body, up to the point where it reads the tip:
\* the error it throws, or "pass"
CommitChecks(body) ==
    IF ~(body.creator_id \in DOMAIN creators /\ creators[body.creator_id].is_active)
      THEN CreatorMissing
    ELSE IF ~verifySignature(creators[body.creator_id].public_key_pem,
                             body.block_hash, SigFromHex(body.signature_hex))
      THEN SignatureInvalid
    ELSE IF ~StartsWith(body.block_hash, Repeat(0, body.difficulty))
      THEN ProofOfWorkFailed
    ELSE "pass"

\* the error of the route when validationResult(req) is not empty
ValidationFailed == "ValidationError: Validation failed for block commit"

\* validateCommitBlock: the express-validator chain of the route, on the
\* fields a body of the model can get wrong.  A hash has HashLen digits here
\* where the route asks for 64, and a hex string is known by its length.
validateCommitBlock(body) ==
    /\ body.previous_hash = NULL_HASH \/ Len(body.previous_hash) = HashLen
    /\ Len(body.block_hash) = HashLen
    /\ body.difficulty >= 1
    /\ body.encrypted_data_hex[1] > 0
    /\ body.data_iv_hex[1] = 2 * IvBytes
    /\ body.encrypted_data_key_hex[1] > 0
    /\ body.data_size >= 1

\* what the route answers to a body before it reads the tip: the validation
\* error, the error of one of its three checks, or "pass"
CommitAnswer(body) ==
    IF ~validateCommitBlock(body) THEN ValidationFailed ELSE CommitChecks(body)

\* a commit request is handled from its arrival to the INSERT of addBlock: the
\* body is validated, the creator row comes back, signature and proof of work
\* are checked, the tip is read and addBlock builds blockToInsert.  Nothing
\* read before the creator row comes back can change, so the request is taken
\* at that moment.  Once the store is full, clients send no body that would
\* pass and add a block.
CommitRequestOf(t, bodies) ==
    /\ Free(t)
    /\ \E body \in bodies :
         /\ body.previous_hash \in KnownHashes
         /\ Room \/ Stored(body.block_hash) \/ CommitAnswer(body) # "pass"
         /\ LET blk == BlockToInsert(NewBlockData(body, getLatestBlock))
            IN  tasks' = [tasks EXCEPT ![t] =
                  IF CommitAnswer(body) # "pass"
                    THEN [Idle EXCEPT !.kind = "commit", !.pc = "respond", !.req = body,
                                      !.status = CommitAnswer(body)]
                  ELSE IF ~EssentialFieldsPresent(blk)
                    THEN [Idle EXCEPT !.kind = "commit", !.pc = "existing", !.req = body,
                                      !.blk = blk]
                  ELSE [Idle EXCEPT !.kind = "commit", !.pc = "insert", !.req = body,
                                    !.blk = blk]]
    /\ UNCHANGED <<db, chain>>
    /\ Quiet

\* a commit request from a client of the node
CommitRequest(t) == CommitRequestOf(t, AllBodies)

(***************************************************************************)
(* addBlock from its INSERT on, shared by the commit and BLOCK handlers.   *)
(***************************************************************************)
\* what the caller of addBlock does once addBlock has returned false: the
\* route looks the block up, the message handler is done
AfterNotAdded(task) ==
    IF task.kind = "commit" THEN [task EXCEPT !.pc = "existing", !.rows = << >>]
    ELSE Idle

\* the INSERT ... ON CONFLICT (block_hash) DO NOTHING runs in the database:
\* after an insert addBlock goes on to loadChainFromDB, after an error it
\* returns false
AddBlockInsert(t) ==
    /\ tasks[t].pc = "insert"
    /\ LET row == InsertedByAddBlock(tasks[t].blk)
           outcome == InsertOnConflict(db, row)
       IN  /\ outcome = "inserted" => Room
           /\ db' = IF outcome = "inserted" THEN db \cup {row} ELSE db
           /\ tasks' = [tasks EXCEPT ![t] =
                 IF outcome = "inserted" THEN [@ EXCEPT !.pc = "load"]
                 ELSE IF outcome = "conflict" THEN [@ EXCEPT !.pc = "conflict"]
                 ELSE AfterNotAdded(@)]
    /\ UNCHANGED chain
    /\ Quiet

\* rowCount 0 comes back: addBlock reloads the chain when the block is not in
\* memory, and returns false
AddBlockConflict(t) ==
    /\ tasks[t].pc = "conflict"
    /\ LET existsInMemory ==
             \E i \in 1..Len(chain) : chain[i].block_hash = tasks[t].blk.block_hash
       IN  tasks' = [tasks EXCEPT ![t] =
             IF existsInMemory THEN AfterNotAdded(@) ELSE [@ EXCEPT !.pc = "reload"]]
    /\ UNCHANGED <<db, chain>>
    /\ Quiet

\* the SELECT of loadChainFromDB runs in the database
LoadSelect(t) ==
    /\ tasks[t].pc \in {"load", "reload"}
    /\ tasks' = [tasks EXCEPT ![t] =
          [@ EXCEPT !.pc = IF @ = "load" THEN "assign" ELSE "reassign",
                    !.rows = OrderByBlockNumber(db)]]
    /\ UNCHANGED <<db, chain>>
    /\ Quiet

\* loadChainFromDB stores the mapped rows in this.chain and returns to its
\* caller: addBlock returns true after an insert (the caller then broadcasts the
\* block) and false after a conflict; replaceChain is done
LoadAssign(t) ==
    /\ tasks[t].pc \in {"assign", "reassign"}
    /\ chain' = LoadMap(tasks[t].rows)
    /\ tasks' = [tasks EXCEPT ![t] =
          IF @.pc = "reassign" THEN AfterNotAdded(@)
          ELSE IF @.kind = "commit" THEN [@ EXCEPT !.pc = "name", !.rows = << >>]
          ELSE Idle]
    /\ sent' = IF tasks[t].pc = "assign" /\ tasks[t].kind \in {"commit", "block"}
                 THEN broadcastBlock(IF tasks[t].kind = "commit" THEN tasks[t].blk
                                     ELSE tasks[t].req)
               ELSE << >>
    /\ UNCHANGED <<db, audit, sockets, config, cluster>>

\* the SELECT of loadChainFromDB is rejected (the connection is lost, the pool
\* times out): the catch block logs it and empties this.chain, and
\* loadChainFromDB returns to its caller as it does after a load
LoadFail(t) ==
    /\ tasks[t].pc \in {"load", "reload"}
    /\ chain' = << >>
    /\ tasks' = [tasks EXCEPT ![t] =
          IF @.pc = "reload" THEN AfterNotAdded(@)
          ELSE IF @.kind = "commit" THEN [@ EXCEPT !.pc = "name", !.rows = << >>]
          ELSE Idle]
    /\ sent' = IF tasks[t].pc = "load" /\ tasks[t].kind \in {"commit", "block"}
                 THEN broadcastBlock(IF tasks[t].kind = "commit" THEN tasks[t].blk
                                     ELSE tasks[t].req)
               ELSE << >>
    /\ UNCHANGED <<db, audit, sockets, config, cluster>>

\* the route's lookup of the stored block with this hash comes back: 200, with
\* the rows found
CommitExisting(t) ==
    /\ tasks[t].kind = "commit" /\ tasks[t].pc = "existing"
    /\ tasks' = [tasks EXCEPT ![t] =
          [@ EXCEPT !.pc = "respond", !.status = "200",
                    !.rows = OrderByBlockNumber(
                                {r \in db : r.block_hash = tasks[t].req.block_hash})]]
    /\ UNCHANGED <<db, chain>>
    /\ Quiet

\* the creator's display name comes back: 201
CommitName(t) ==
    /\ tasks[t].kind = "commit" /\ tasks[t].pc = "name"
    /\ tasks' = [tasks EXCEPT ![t] = [@ EXCEPT !.pc = "respond", !.status = "201"]]
    /\ UNCHANGED <<db, chain>>
    /\ Quiet

\* a query the route sends after addBlock has returned (the lookup of the
\* stored block, or of the creator's display name) is rejected: asyncHandler
\* passes the error to globalErrorHandler, which answers 500
CommitQueryFail(t) ==
    /\ tasks[t].kind = "commit" /\ tasks[t].pc \in {"existing", "name"}
    /\ tasks' = [tasks EXCEPT ![t] = [@ EXCEPT !.pc = "respond", !.status = "500"]]
    /\ UNCHANGED <<db, chain>>
    /\ Quiet

\* the response reaches the client
CommitRespond(t) ==
    /\ tasks[t].kind = "commit" /\ tasks[t].pc = "respond"
    /\ tasks' = [tasks EXCEPT ![t] = Idle]
    /\ UNCHANGED <<db, chain>>
    /\ Quiet

(***************************************************************************)
(* The peers: what arrives on a socket (backend/src/services/p2p.js).      *)
(***************************************************************************)
\* the plaintext of the m-th block a peer's clients commit
PeerData(m) == MaxData - ((m - 1) % MaxData)

\* NOW() when a verifier stamps a block
VerifierNow == 2

\* the commit body with which the m-th block of that peer was committed on tip
PeerBody(m, tip) ==
    CHOOSE b \in CommitBodies(IF m = 1 THEN GENESIS_HASH ELSE tip.block_hash,
                              PeerData(m), 1, "none") : TRUE

RECURSIVE PeerRows(_)
\* the table of a peer running this program after m honest commits
PeerRows(m) ==
    IF m = 0 THEN << >>
    ELSE LET before == PeerRows(m - 1)
             tip    == IF m = 1 THEN NoBlock ELSE LoadMap(before)[m - 1]
         IN  Append(before,
                    InsertedByAddBlock(BlockToInsert(NewBlockData(PeerBody(m, tip), tip))))

\* the chain in a CHAIN message of that peer: its verifier has stamped every
\* block but the last
PeerChain(m) ==
    LET rows == PeerRows(m)
        held == LoadMap([j \in 1..m |->
                   IF j < m THEN [rows[j] EXCEPT !.verified = TRUE,
                                                 !.verified_at = VerifierNow]
                            ELSE rows[j]])
    IN  [i \in 1..m |-> BlockToJSON(held[i])]

\* the block in the BLOCK message that peer sent when its m-th block was committed
PeerBlock(m) ==
    LET tip == IF m = 1 THEN NoBlock ELSE LoadMap(PeerRows(m - 1))[m - 1]
    IN  BlockToJSON(NewBlockData(PeerBody(m, tip), tip))

\* a first block a peer that skips the checks of the commit route sends
ForgedBlock(fault) ==
    BlockToJSON(NewBlockData(CHOOSE b \in CommitBodies(GENESIS_HASH, 1, 1, fault) : TRUE,
                             NoBlock))

\* the blocks BLOCK messages carry
BlockMessages ==
    {PeerBlock(m) : m \in 1..MaxBlocks} \cup {ForgedBlock("nopow"), ForgedBlock("badsig")}

\* a chain that lists its first block twice: its second INSERT is rejected
BrokenChain == <<PeerChain(1)[1], PeerChain(1)[1]>>

\* the chains CHAIN messages carry
ChainMessages ==
    {PeerChain(m) : m \in 1..(MaxBlocks + 1)}
    \cup {<<ForgedBlock("nopow") @@ [verified |-> FALSE, verified_at |-> NULL_TIME]>>}
    \cup {BrokenChain}

\* what data.chain of a CHAIN message can be: an array of blocks, or a value
\* that is no array (an object with numbered fields and a length of its own)
ChainPayloads ==
    {[array |-> TRUE, value |-> c] : c \in ChainMessages}
    \cup {[array |-> FALSE, value |-> PeerChain(MaxBlocks + 1)]}

\* a guard that lets a candidate of equal length through
ReplaceChainIgnoresShorter(payload, current) ==
    ~payload.array \/ Len(payload.value) < Len(current)

\* the guard of replaceChain: TRUE when the candidate is ignored
ReplaceChainIgnores(payload, current) ==
    ~payload.array \/ Len(payload.value) <= Len(current)

\* blocks that break the rule of the first block: a second block without a
\* previous_hash, and a first block that names the sentinel as its previous_hash
OrphanBlock == [PeerBlock(2) EXCEPT !.previous_hash = NULL_HASH]
SentinelBlock == [PeerBlock(1) EXCEPT !.previous_hash = GENESIS_HASH]

\* the blocks BLOCK messages carry when peers send such blocks too
GenesisMessages == {PeerBlock(1), PeerBlock(2), OrphanBlock, SentinelBlock}

\* messageHandler, case BLOCK, for a message out of messages: addBlock up to
\* its INSERT
BlockReceiveOf(t, messages) ==
    /\ Free(t)
    /\ \E block \in messages :
         /\ Room \/ Stored(block.block_hash)
         /\ tasks' = [tasks EXCEPT ![t] =
            IF ~EssentialFieldsPresent(BlockToInsert(block)) THEN Idle
            ELSE [Idle EXCEPT !.kind = "block", !.pc = "insert", !.req = block,
                              !.blk = BlockToInsert(block)]]
    /\ UNCHANGED <<db, chain>>
    /\ Quiet

\* messageHandler, case BLOCK
BlockReceive(t) == BlockReceiveOf(t, BlockMessages)

\* messageHandler, case CHAIN: replaceChain returns at once, or runs up to its
\* DELETE (pool.connect and BEGIN change nothing); blk keeps what the guard saw:
\* the length of the chain in memory, whether the candidate is an array, and
\* its length
ChainReceive(t) ==
    /\ Free(t)
    /\ \E payload \in ChainPayloads :
         LET saw == [length |-> Len(chain), array |-> payload.array,
                     size |-> Len(payload.value)]
         IN  tasks' = [tasks EXCEPT ![t] =
                IF ReplaceChainIgnores(payload, chain)
                  THEN [Idle EXCEPT !.kind = "chain", !.pc = "ignored", !.blk = saw]
                ELSE [Idle EXCEPT !.kind = "chain", !.pc = "delete",
                                  !.req = payload.value, !.blk = saw]]
    /\ UNCHANGED <<db, chain>>
    /\ Quiet

\* the promise of a replaceChain that ignored its candidate resolves
ChainReturn(t) ==
    /\ tasks[t].kind = "chain" /\ tasks[t].pc = "ignored"
    /\ tasks' = [tasks EXCEPT ![t] = Idle]
    /\ UNCHANGED <<db, chain>>
    /\ Quiet

\* DELETE FROM blockchain.blocks inside the transaction: the trigger raises for
\* the first row there is, and the catch block rolls back; rows keeps what the
\* transaction has deleted and not yet committed
ChainDelete(t) ==
    /\ tasks[t].kind = "chain" /\ tasks[t].pc = "delete"
    /\ tasks' = [tasks EXCEPT ![t] =
          IF DeleteAll(db).ok
            THEN [@ EXCEPT !.pc = "inserts", !.rows = OrderByBlockNumber(db)]
            ELSE Idle]
    /\ UNCHANGED <<db, chain>>
    /\ Quiet

RECURSIVE InsertAll(_, _)
\* the INSERT loop of replaceChain: whether every INSERT goes through and the
\* table afterwards
InsertAll(table, blocks) ==
    IF blocks = << >> THEN [ok |-> TRUE, table |-> table]
    ELSE IF InsertPlain(table, InsertedByReplaceChain(Head(blocks))) = "error"
      THEN [ok |-> FALSE, table |-> table]
    ELSE InsertAll(table \cup {InsertedByReplaceChain(Head(blocks))}, Tail(blocks))

\* a ROLLBACK that keeps what the transaction had written
RollbackKeeps(before, partial) == partial

\* ROLLBACK: the table is what it was, whatever the transaction had written
Rollback(before, partial) == before

\* the INSERTs and the COMMIT of replaceChain take effect, or one INSERT is
\* rejected and the transaction rolls back
ChainInsert(t) ==
    /\ tasks[t].kind = "chain" /\ tasks[t].pc = "inserts"
    /\ LET deleted == {tasks[t].rows[i] : i \in 1..Len(tasks[t].rows)}
           after == InsertAll(db \ deleted, tasks[t].req)
       IN  IF after.ok
             THEN /\ Cardinality(after.table \ {StartRow}) <= MaxBlocks
                  /\ db' = after.table
                  /\ tasks' = [tasks EXCEPT ![t] = [@ EXCEPT !.pc = "load", !.rows = << >>]]
             ELSE /\ db' = Rollback(db, after.table)
                  /\ tasks' = [tasks EXCEPT ![t] = Idle]
    /\ UNCHANGED chain
    /\ Quiet

(***************************************************************************)
(* The peer connections (backend/src/services/p2p.js).                     *)
(***************************************************************************)
\* JSON.stringify of this.blockchain.chain
ChainToJSON(c) == [i \in 1..Len(c) |-> BlockToJSON(c[i])]

\* a sendChain that sends the tip only
sendTip(socket) ==
    << [to |-> socket, type |-> "CHAIN",
        chain |-> IF chain = << >> THEN << >>
                  ELSE << BlockToJSON(chain[Len(chain)]) >>] >>

\* sendChain: the socket is handed one CHAIN message with the chain in memory
sendChain(socket) ==
    << [to |-> socket, type |-> "CHAIN", chain |-> ChainToJSON(chain)] >>

\* the socket is in this.sockets
Connected(s) == \E i \in 1..Len(sockets) : sockets[i] = s

\* a filter that keeps only the sockets before the one that went
WithoutFrom(list, s) ==
    SubSeq(list, 1, (CHOOSE i \in 1..Len(list) : list[i] = s) - 1)

\* this.sockets.filter(x => x !== socket)
Without(list, s) == SelectSeq(list, LAMBDA x : x # s)

\* connectSocket: a connection opens, inbound ('connection') or outbound
\* ('open'); the socket is pushed, its handlers are set and the chain is sent
ConnectSocket(s) ==
    /\ ~Connected(s)
    /\ sockets' = Append(sockets, s)
    /\ sent' = sendChain(s)
    /\ UNCHANGED <<db, chain, tasks, audit, config, cluster>>

\* socket.on('close')
SocketClose(s) ==
    /\ Connected(s)
    /\ sockets' = Without(sockets, s)
    /\ sent' = << >>
    /\ UNCHANGED <<db, chain, tasks, audit, config, cluster>>

\* socket.on('error'): the socket is dropped from this.sockets; the connection
\* is lost with it
SocketError(s) ==
    /\ Connected(s)
    /\ sockets' = Without(sockets, s)
    /\ sent' = << >>
    /\ UNCHANGED <<db, chain, tasks, audit, config, cluster>>

\* socket.on('message') with a message that JSON.parse rejects, or that names
\* no type of the switch, or whose BLOCK has no block: the handler throws or
\* falls through, the catch logs, and nothing else happens
MessageGarbled(s) ==
    /\ Connected(s)
    /\ sent' = << >>
    /\ UNCHANGED <<db, chain, tasks, audit, sockets, config, cluster>>

(***************************************************************************)
(* The verifier (backend/src/services/verifier.js).                        *)
(***************************************************************************)
\* LIMIT 10
VerifierLimit == 10

\* what NOW() - timeoutMs can be when a tick runs
Cutoffs == ClientNow..(ClientNow + 1)

RECURSIVE ByCreatedAt(_)
\* the sequences that list the rows of a set by created_at, ties in any order
ByCreatedAt(rows) ==
    IF rows = {} THEN {<< >>}
    ELSE LET oldest == {r \in rows : \A q \in rows : r.created_at <= q.created_at}
         IN  UNION {{<<r>> \o rest : rest \in ByCreatedAt(rows \ {r})} : r \in oldest}

\* verifyProofOfWork
verifyProofOfWork(blockHash, difficulty) == StartsWith(blockHash, Repeat(0, difficulty))

\* verifyChainIntegrity against the rows of table
verifyChainIntegrity(block, table) ==
    IF block.block_number = 1
      THEN block.previous_hash = NULL_HASH \/ block.previous_hash = GENESIS_HASH
    ELSE /\ \E r \in table : r.block_number = block.block_number - 1
         /\ LET prev == CHOOSE r \in table : r.block_number = block.block_number - 1
            IN  block.previous_hash = prev.block_hash

\* verifyDigitalSignature
verifyDigitalSignature(block) ==
    /\ block.creator_id # NULL_CREATOR
    /\ block.creator_id \in DOMAIN creators
    /\ creators[block.creator_id].is_active
    /\ verifySignature(creators[block.creator_id].public_key_pem,
                       block.block_hash, block.signature)

\* tolerated difference between data_size and the buffers' lengths
SizeTolerance == 128
\* least length of a ciphertext: the authentication tag
MinCipherBytes == 16

\* verifyDataIntegrity
verifyDataIntegrity(block) ==
    LET actualSize == block.encrypted_data.len + block.data_iv.len
                        + block.encrypted_data_key.len
        sizeVariance == IF actualSize >= block.data_size THEN actualSize - block.data_size
                        ELSE block.data_size - actualSize
    IN  /\ sizeVariance <= SizeTolerance
        /\ block.data_iv.len = IvBytes
        /\ block.encrypted_data.len >= MinCipherBytes

\* verifyBlock against the rows of table
verifyBlock(block, table) ==
    /\ calculateHash(buildHashInput(block)) = block.block_hash
    /\ verifyProofOfWork(block.block_hash, block.difficulty)
    /\ verifyChainIntegrity(block, table)
    /\ verifyDigitalSignature(block)
    /\ verifyDataIntegrity(block)

\* verifyPendingBlocks when NOW() - timeoutMs is cutoff: the SELECT of the
\* pending blocks comes back
VerifierTickAt(t, cutoff) ==
    /\ Free(t)
    /\ LET pending == {r \in db : ~r.verified /\ r.created_at < cutoff}
       IN  \E all \in ByCreatedAt(pending) :
             tasks' = [tasks EXCEPT ![t] =
                IF all = << >> THEN Idle
                ELSE [Idle EXCEPT !.kind = "verify", !.pc = "verify",
                        !.rows = SubSeq(all, 1, IF Len(all) < VerifierLimit
                                                  THEN Len(all) ELSE VerifierLimit)]]
    /\ UNCHANGED <<db, chain>>
    /\ Quiet

\* verifyPendingBlocks at any time
VerifierTick(t) == \E cutoff \in Cutoffs : VerifierTickAt(t, cutoff)

\* verifyBlock runs for the next block of the batch: its queries come back
VerifierCheck(t) ==
    /\ tasks[t].kind = "verify" /\ tasks[t].pc = "verify"
    /\ tasks' = [tasks EXCEPT ![t] =
          [@ EXCEPT !.pc = "update",
                    !.status = IF verifyBlock(Head(tasks[t].rows), db) THEN "valid" ELSE "invalid"]]
    /\ UNCHANGED <<db, chain>>
    /\ Quiet

\* a loop that an exception ends
AbortBatch(task) == Idle

\* the loop of verifyPendingBlocks goes on to the next block of the batch, or
\* the tick is over
NextOfBatch(task) ==
    IF Len(task.rows) = 1 THEN Idle
    ELSE [task EXCEPT !.pc = "verify", !.rows = Tail(@), !.status = "none"]

\* an UPDATE that resets the nonce as well
VerifierSetNonce(row, isValid) ==
    [row EXCEPT !.verified = isValid, !.verified_at = VerifierNow, !.nonce = 0]

\* UPDATE blockchain.blocks SET verified = $1, verified_at = NOW()
VerifierSet(row, isValid) ==
    [row EXCEPT !.verified = isValid, !.verified_at = VerifierNow]

\* the UPDATE of that block runs through the trigger: when it goes through the
\* audit INSERT is next; when the trigger raises, the catch block of the loop
\* logs it and the loop goes on
VerifierUpdate(t) ==
    /\ tasks[t].kind = "verify" /\ tasks[t].pc = "update"
    /\ LET block == Head(tasks[t].rows)
           isValid == tasks[t].status = "valid"
           hit == {r \in db : r.block_hash = block.block_hash}
           new(r) == VerifierSet(r, isValid)
           updated == \A r \in hit : TriggerAllowsUpdate(r, new(r))
       IN  /\ db' = IF updated THEN (db \ hit) \cup {new(r) : r \in hit} ELSE db
           /\ tasks' = [tasks EXCEPT ![t] =
                 IF updated THEN [@ EXCEPT !.pc = "audit"] ELSE NextOfBatch(@)]
    /\ UNCHANGED chain
    /\ Quiet

\* the row of audit.events written for a verified block
AuditEvent(block, isValid) ==
    [block_hash |-> block.block_hash, event_type |-> "VERIFIED", verified |-> isValid]

\* the INSERT INTO audit.events runs; then the loop goes on
VerifierAudit(t) ==
    /\ tasks[t].kind = "verify" /\ tasks[t].pc = "audit"
    /\ audit' = audit \cup {AuditEvent(Head(tasks[t].rows), tasks[t].status = "valid")}
    /\ sent' = << >>
    /\ tasks' = [tasks EXCEPT ![t] = NextOfBatch(@)]
    /\ UNCHANGED <<db, chain, sockets, config, cluster>>

(***************************************************************************)
(* SQL sent to the store by a session other than the node's.               *)
(***************************************************************************)
\* the rows an UPDATE of row can ask for: any of verified, verified_at, nonce
\* and difficulty set to a value of its own
UpdatesOf(row) ==
    {[row EXCEPT !.verified = v, !.verified_at = a, !.nonce = n, !.difficulty = d] :
        v \in BOOLEAN, a \in {NULL_TIME, VerifierNow},
        n \in {row.nonce, 0}, d \in {row.difficulty, DbMaxDifficulty}}

\* one statement on one row runs in the store, through the constraints and the
\* trigger; the session keeps the statement and how it ended
SqlRun(t) ==
    /\ \A u \in Tasks : tasks[u].pc = "idle"
    /\ Free(t)
    /\ \E old \in db :
         \/ \E new \in UpdatesOf(old) :
              LET ok == TriggerAllowsUpdate(old, new) /\ ChecksHold(new)
              IN  /\ db' = IF ok THEN (db \ {old}) \cup {new} ELSE db
                  /\ tasks' = [tasks EXCEPT ![t] =
                       [Idle EXCEPT !.kind = "sql", !.pc = "done",
                                    !.req = [op |-> "UPDATE", old |-> old, new |-> new],
                                    !.status = IF ok THEN "ok" ELSE "error"]]
         \/ LET ok == TriggerAllowsDelete(old)
            IN  /\ db' = IF ok THEN db \ {old} ELSE db
                /\ tasks' = [tasks EXCEPT ![t] =
                     [Idle EXCEPT !.kind = "sql", !.pc = "done",
                                  !.req = [op |-> "DELETE", old |-> old, new |-> old],
                                  !.status = IF ok THEN "ok" ELSE "error"]]
    /\ UNCHANGED chain
    /\ Quiet

\* the session reads the outcome
SqlDone(t) ==
    /\ tasks[t].kind = "sql" /\ tasks[t].pc = "done"
    /\ tasks' = [tasks EXCEPT ![t] = Idle]
    /\ UNCHANGED <<db, chain>>
    /\ Quiet

(***************************************************************************)
(* The node.                                                               *)
(***************************************************************************)
\* a node started on an empty database: initDb, then loadChainFromDB; one
\* peer has connected and stays connected
Init ==
    /\ db = {}
    /\ chain = << >>
    /\ tasks = [t \in Tasks |-> Idle]
    /\ sent = << >>
    /\ audit = {}
    /\ sockets = <<1>>
    /\ config = [DIFFICULTY |-> MaxDifficulty]
    /\ cluster = << >>

Next ==
    \E t \in Tasks :
        \/ CommitRequest(t)
        \/ AddBlockInsert(t)
        \/ AddBlockConflict(t)
        \/ LoadSelect(t)
        \/ LoadAssign(t)
        \/ CommitExisting(t)
        \/ CommitName(t)
        \/ CommitRespond(t)
        \/ BlockReceive(t)
        \/ ChainReceive(t)
        \/ ChainReturn(t)
        \/ ChainDelete(t)
        \/ ChainInsert(t)
        \/ VerifierTick(t)
        \/ VerifierCheck(t)
        \/ VerifierUpdate(t)
        \/ VerifierAudit(t)

Spec == Init /\ [][Next]_vars

\* a node restarted on a database that holds one block, serving commits
InitRestart ==
    /\ db = {StartRow}
    /\ chain = LoadMap(OrderByBlockNumber({StartRow}))
    /\ tasks = [t \in Tasks |-> Idle]
    /\ sent = << >>
    /\ audit = {}
    /\ sockets = <<1>>
    /\ config = [DIFFICULTY |-> MaxDifficulty]
    /\ cluster = << >>

NextRestart ==
    \E t \in Tasks :
        \/ CommitRequest(t)
        \/ AddBlockInsert(t)
        \/ AddBlockConflict(t)
        \/ LoadSelect(t)
        \/ LoadAssign(t)
        \/ CommitExisting(t)
        \/ CommitName(t)
        \/ CommitRespond(t)

SpecRestart == InitRestart /\ [][NextRestart]_vars

\* the store of a node that holds a peer's chain, with other sessions sending
\* it SQL
InitStore ==
    /\ db = {PeerRows(MaxBlocks)[i] : i \in 1..Len(PeerRows(MaxBlocks))}
    /\ chain = LoadMap(PeerRows(MaxBlocks))
    /\ tasks = [t \in Tasks |-> Idle]
    /\ sent = << >>
    /\ audit = {}
    /\ sockets = << >>
    /\ config = [DIFFICULTY |-> MaxDifficulty]
    /\ cluster = << >>

NextStore ==
    \E t \in Tasks :
        \/ SqlRun(t)
        \/ SqlDone(t)

SpecStore == InitStore /\ [][NextStore]_vars

\* the block a peer committed first, as this node stores it: it passes the
\* five checks of the verifier
ValidRow == PeerRows(1)[1]

\* the i-th of the older blocks of a backlog, received in BLOCK messages: its
\* block_hash lacks the leading zero, so it never passes the verifier
BacklogRow(i) ==
    [ValidRow EXCEPT !.block_number = i + 1,
                     !.previous_hash = Digits(2 ^ (HashLen - 1) + i - 1, HashLen),
                     !.block_hash = Digits(2 ^ (HashLen - 1) + i, HashLen),
                     !.created_at = i - VerifierLimit]

\* a store that holds k such blocks and, newer than all of them, the valid one
BacklogStore(k) == {BacklogRow(i) : i \in 1..k} \cup {ValidRow}

\* a node restarted on a store with a backlog of one block less than a batch
\* of the verifier holds, or of a full batch; only the verifier runs
InitBacklog ==
    /\ \E k \in {VerifierLimit - 1, VerifierLimit} :
          /\ db = BacklogStore(k)
          /\ chain = LoadMap(OrderByBlockNumber(BacklogStore(k)))
    /\ tasks = [t \in Tasks |-> Idle]
    /\ sent = << >>
    /\ audit = {}
    /\ sockets = << >>
    /\ config = [DIFFICULTY |-> MaxDifficulty]
    /\ cluster = << >>

NextBacklog ==
    \E t \in Tasks :
        \/ VerifierTick(t)
        \/ VerifierCheck(t)
        \/ VerifierUpdate(t)
        \/ VerifierAudit(t)

\* the queries of verifyBlock come back, with either outcome: the steps of
\* NextBacklog that satisfy this are those of VerifierCheck(t)
VerifierCheckReturns(t) ==
    /\ tasks[t].kind = "verify" /\ tasks[t].pc = "verify"
    /\ \E status \in {"valid", "invalid"} :
          tasks' = [tasks EXCEPT ![t] = [@ EXCEPT !.pc = "update", !.status = status]]
    /\ UNCHANGED <<db, chain>>
    /\ Quiet

\* setInterval keeps the ticks coming while time passes, so that ticks later
\* than the age every stored block needs never cease, and every query of a
\* tick comes back
SpecBacklog ==
    /\ InitBacklog
    /\ [][NextBacklog]_vars
    /\ SF_vars(\E t \in Tasks : VerifierTickAt(t, ClientNow + 1))
    /\ \A t \in Tasks :
          WF_vars(VerifierCheckReturns(t) \/ VerifierUpdate(t) \/ VerifierAudit(t))

\* a node started on an empty database with no peer connected: connections
\* open and close, peers send BLOCK messages, clients prepare and commit
InitPeers ==
    /\ db = {}
    /\ chain = << >>
    /\ tasks = [t \in Tasks |-> Idle]
    /\ sent = << >>
    /\ audit = {}
    /\ sockets = << >>
    /\ config = [DIFFICULTY |-> MaxDifficulty]
    /\ cluster = << >>

NextPeers ==
    \/ \E s \in Sockets :
          \/ ConnectSocket(s)
          \/ SocketClose(s)
          \/ SocketError(s)
          \/ MessageGarbled(s)
    \/ \E t \in Tasks :
          \/ PrepareMining(t)
          \/ PrepareRespond(t)
          \/ BlockReceiveOf(t, GenesisMessages)
          \/ AddBlockInsert(t)
          \/ AddBlockConflict(t)
          \/ LoadSelect(t)
          \/ LoadAssign(t)

SpecPeers == InitPeers /\ [][NextPeers]_vars

\* the bodies of commits whose creator is active, deactivated or unknown,
\* signed with the key of either creator, mined or not
CheckedBodies ==
    UNION {LET bd == BlockData(p, d, c, k)
               good == GoodNonces(bd, k)
               bad == (1..MaxNonce) \ good
           IN  {CommitBody(bd, Least(N), key) : N \in {good, bad} \ {{}}}
           : p \in HashesWithin(1), d \in 1..MaxData, k \in 1..MaxDifficulty,
             c \in {"c1", "c2", "c3"}, key \in {"k1", "k2"}}

\* the first part of the commit route, on its own: the creator row comes back
\* and the route throws, or has passed its checks and goes on to read the tip
CommitValidate(t) ==
    /\ tasks[t].kind = "commit" /\ tasks[t].pc = "arrived"
    /\ tasks' = [tasks EXCEPT ![t] =
          IF CommitChecks(tasks[t].req) # "pass"
            THEN [@ EXCEPT !.pc = "respond", !.status = CommitChecks(tasks[t].req)]
          ELSE [@ EXCEPT !.pc = "checked"]]
    /\ UNCHANGED <<db, chain>>
    /\ Quiet

\* a node with an empty store that has received one commit, of any such body
InitChecks ==
    /\ db = {}
    /\ chain = << >>
    /\ \E body \in CheckedBodies :
          tasks = [t \in Tasks |->
                     IF t = 1 THEN [Idle EXCEPT !.kind = "commit", !.pc = "arrived",
                                                !.req = body]
                     ELSE Idle]
    /\ sent = << >>
    /\ audit = {}
    /\ sockets = << >>
    /\ config = [DIFFICULTY |-> MaxDifficulty]
    /\ cluster = << >>

NextChecks ==
    \E t \in Tasks :
        \/ CommitValidate(t)
        \/ CommitRespond(t)

SpecChecks == InitChecks /\ [][NextChecks]_vars

\* the difficulties a node can be configured with (config.js allows 1 to 8)
Difficulties == 1..(MaxDifficulty + 1)

\* the sizes a client can give the IV and the ciphertext: right, one byte
\* short of what the verifier asks for, and one byte over
IvSizes == {IvBytes - 1, IvBytes, IvBytes + 1}
CipherSizes == {MinCipherBytes - 1, MinCipherBytes, MinCipherBytes + 1}

\* the block a client mines when it seals with buffers of these sizes
ShapedBlockData(prev, ivLen, dataLen, keyLen, difficulty) ==
    [BlockData(prev, 1, "c1", difficulty)
       EXCEPT !.encrypted_data = Buf(dataLen, 1), !.data_iv = Buf(ivLen, 7),
              !.encrypted_data_key = Buf(keyLen, 9)]

\* what a client can get wrong: the sizes, at the lowest difficulty, or the
\* declared difficulty, from 0 up to the highest a node can be configured
\* with, at the right sizes
Shapes ==
    {<<iv, len, 1>> : iv \in IvSizes, len \in CipherSizes}
    \cup {<<IvBytes, MinCipherBytes + 1, k>> : k \in {0} \cup Difficulties}

\* the commit bodies of the active creator for a preparation on the empty
\* chain, mined and signed as BlockCreation.jsx does
ShapedBodies ==
    UNION {LET bd == ShapedBlockData(GENESIS_HASH, x[1], x[2], KeyBytes, x[3])
           IN  IF GoodNonces(bd, x[3]) = {} THEN {}
               ELSE {CommitBody(bd, mineBlock(bd, x[3]), "k1")}
           : x \in Shapes}

\* a node of any configured difficulty, started on an empty database with one
\* peer connected: clients prepare, and commit bodies of any of these shapes
InitShapes ==
    /\ db = {}
    /\ chain = << >>
    /\ tasks = [t \in Tasks |-> Idle]
    /\ sent = << >>
    /\ audit = {}
    /\ sockets = <<1>>
    /\ config \in {[DIFFICULTY |-> d] : d \in Difficulties}
    /\ cluster = << >>

NextShapes ==
    \E t \in Tasks :
        \/ PrepareMining(t)
        \/ PrepareRespond(t)
        \/ CommitRequestOf(t, ShapedBodies)
        \/ AddBlockInsert(t)
        \/ AddBlockConflict(t)
        \/ LoadSelect(t)
        \/ LoadAssign(t)
        \/ CommitExisting(t)
        \/ CommitName(t)
        \/ CommitRespond(t)

SpecShapes == InitShapes /\ [][NextShapes]_vars

\* the sizes a client can give the wrapped key: that of an RSA-2048 modulus,
\* one byte short of it and one byte over
KeySizes == {KeyBytes - 1, KeyBytes, KeyBytes + 1}

\* the first blocks a store can hold after one commit: of a client that mined
\* and signed as BlockCreation.jsx does with buffers of any of these sizes, or
\* of a client with one of the faults that the route lets through
PendingRows ==
    {InsertedByAddBlock(BlockToInsert(NewBlockData(body, NoBlock))) :
        body \in UNION {LET bd == ShapedBlockData(GENESIS_HASH, iv, len, key, 1)
                        IN  IF GoodNonces(bd, 1) = {} THEN {}
                            ELSE {CommitBody(bd, mineBlock(bd, 1), "k1")}
                        : iv \in IvSizes, len \in CipherSizes, key \in KeySizes}
                 \cup UNION {CommitBodies(GENESIS_HASH, 1, 1, f) : f \in ClientFaults}}

\* a node whose store holds one such block, not yet verified
InitVerify ==
    /\ db \in {{r} : r \in PendingRows}
    /\ chain = LoadMap(OrderByBlockNumber(db))
    /\ tasks = [t \in Tasks |-> Idle]
    /\ sent = << >>
    /\ audit = {}
    /\ sockets = << >>
    /\ config = [DIFFICULTY |-> MaxDifficulty]
    /\ cluster = << >>

NextVerify ==
    \E t \in Tasks :
        \/ VerifierTick(t)
        \/ VerifierCheck(t)
        \/ VerifierUpdate(t)
        \/ VerifierAudit(t)

SpecVerify == InitVerify /\ [][NextVerify]_vars

\* a node started on an empty database with one peer connected, whose SELECT
\* of loadChainFromDB and whose queries of the commit route can fail: clients
\* that prepared on the empty chain commit, and peers send CHAIN messages
InitFaults ==
    /\ db = {}
    /\ chain = << >>
    /\ tasks = [t \in Tasks |-> Idle]
    /\ sent = << >>
    /\ audit = {}
    /\ sockets = <<1>>
    /\ config = [DIFFICULTY |-> MaxDifficulty]
    /\ cluster = << >>

NextFaults ==
    \E t \in Tasks :
        \/ CommitRequestOf(t, BodiesAt({GENESIS_HASH}))
        \/ AddBlockInsert(t)
        \/ AddBlockConflict(t)
        \/ LoadSelect(t)
        \/ LoadAssign(t)
        \/ LoadFail(t)
        \/ CommitExisting(t)
        \/ CommitName(t)
        \/ CommitQueryFail(t)
        \/ CommitRespond(t)
        \/ ChainReceive(t)
        \/ ChainReturn(t)
        \/ ChainDelete(t)
        \/ ChainInsert(t)

SpecFaults == InitFaults /\ [][NextFaults]_vars

\* the nodes of the cluster and the ways they can be configured to dial each
\* other (PEERS): <<a, b>> when a dials b
Nodes == 1..NumNodes
Dials == {<<a, b>> \in Nodes \X Nodes : a # b}

\* the sockets node n holds to node p: one for the connection it dialled and
\* one for the connection it accepted
SocketsTo(n, p) ==
    (IF <<n, p>> \in cluster.dials THEN 1 ELSE 0)
    + (IF <<p, n>> \in cluster.dials THEN 1 ELSE 0)

\* broadcastBlock on node n: every socket of n is handed the BLOCK message,
\* which is then in flight to the node at the other end
BroadcastFrom(n, wire) ==
    [p \in Nodes |-> wire[p] + (IF p = n THEN 0 ELSE SocketsTo(n, p))]

\* a client commits a block on node n, as BlockCreation.jsx does against the
\* tip of n: the route adds it to the store of n and broadcasts it.  This is
\* the one commit of the cluster.
ClusterCommit(n) ==
    /\ cluster.block = NoBlock
    /\ LET held == LoadMap(OrderByBlockNumber(cluster.stores[n]))
           last == IF Len(held) > 0 THEN held[Len(held)] ELSE NoBlock
       IN  \E body \in CommitBodies(PreviousHashForCalc(last), 1, 1, "none") :
             LET blk == BlockToInsert(NewBlockData(body, last))
                 row == InsertedByAddBlock(blk)
             IN  /\ CommitAnswer(body) = "pass"
                 /\ InsertOnConflict(cluster.stores[n], row) = "inserted"
                 /\ cluster' = [cluster EXCEPT
                       !.stores[n] = @ \cup {row},
                       !.block = BlockToJSON(NewBlockData(body, last)),
                       !.casts[n] = @ + 1,
                       !.wire = BroadcastFrom(n, @)]
    /\ UNCHANGED <<db, chain, tasks, sent, audit, sockets, config>>

\* messageHandler, case BLOCK, on node n: one BLOCK message in flight to n is
\* taken, addBlock runs, and the block is broadcast when addBlock has added it
ClusterReceive(n) ==
    /\ cluster.wire[n] > 0
    /\ LET row == InsertedByAddBlock(BlockToInsert(cluster.block))
           took == [cluster.wire EXCEPT ![n] = @ - 1]
       IN  IF InsertOnConflict(cluster.stores[n], row) = "inserted"
             THEN cluster' = [cluster EXCEPT
                     !.stores[n] = @ \cup {row},
                     !.casts[n] = @ + 1,
                     !.wire = BroadcastFrom(n, took)]
           ELSE cluster' = [cluster EXCEPT !.wire = took]
    /\ UNCHANGED <<db, chain, tasks, sent, audit, sockets, config>>

\* a cluster connected in any way, each node with an empty store or with a
\* first block of its own, before the commit
InitCluster ==
    /\ db = {}
    /\ chain = << >>
    /\ tasks = [t \in Tasks |-> Idle]
    /\ sent = << >>
    /\ audit = {}
    /\ sockets = << >>
    /\ config = [DIFFICULTY |-> MaxDifficulty]
    /\ \E dials \in SUBSET Dials, stores \in [Nodes -> {{}, {StartRow}}] :
          cluster = [dials  |-> dials,
                     stores |-> stores,
                     block  |-> NoBlock,
                     wire   |-> [n \in Nodes |-> 0],
                     casts  |-> [n \in Nodes |-> 0]]

NextCluster ==
    \E n \in Nodes :
        \/ ClusterCommit(n)
        \/ ClusterReceive(n)

\* every message in flight is delivered: a node handles each message its
\* sockets receive
SpecCluster ==
    /\ InitCluster
    /\ [][NextCluster]_vars
    /\ \A n \in Nodes : WF_vars(ClusterReceive(n))

(***************************************************************************)
(* The claims.                                                             *)
(***************************************************************************)
\* C1: every block in the store has block_hash equal to the hash of the
\* canonical hash input rebuilt from its own stored fields.
HashOfStoredFields ==
    \A b \in db : calculateHash(buildHashInput(b)) = b.block_hash

\* C2: every block in the store has a block_hash that starts with at least as
\* many '0' digits as its difficulty.
ProofOfWorkStored ==
    \A b \in db : StartsWith(b.block_hash, Repeat(0, b.difficulty))

\* C3: every block in the store carries a signature over its block_hash that
\* verifies under the public key of the creator it references.
SignatureStored ==
    \A b \in db :
        /\ b.creator_id \in DOMAIN creators
        /\ verifySignature(creators[b.creator_id].public_key_pem, b.block_hash, b.signature)

\* the commit handled in slot t has added its block to the store
Appended(t) ==
    /\ tasks[t].kind = "commit"
    /\ \/ tasks[t].pc \in {"load", "assign", "name"}
       \/ tasks[t].pc = "respond" /\ tasks[t].status = "201"

\* C4: a commit whose previous_hash is neither the tip's block_hash nor the
\* genesis sentinel, on a node that has a tip, appends nothing.
TipMovedRefused ==
    \A t \in Tasks :
        Appended(t) =>
            \/ tasks[t].blk.previous_hash = NULL_HASH
            \/ tasks[t].req.previous_hash = GENESIS_HASH
            \/ tasks[t].req.previous_hash = tasks[t].blk.previous_hash

\* C5: of two commits with different block_hash prepared against the same tip
\* and handled at the same time, at most one adds its block.
OneOfTwoAppended ==
    \A t, u \in Tasks :
        ( /\ t # u
          /\ Appended(t) /\ tasks[t].pc # "respond"
          /\ Appended(u) /\ tasks[u].pc # "respond"
          /\ tasks[t].req.previous_hash # GENESIS_HASH
          /\ tasks[t].req.previous_hash = tasks[u].req.previous_hash )
        => tasks[t].req.block_hash = tasks[u].req.block_hash

\* C6: in a non-empty store exactly one block has block_number 1, its
\* previous_hash is NULL, and every other block's previous_hash is the
\* block_hash of the stored block whose block_number is one less.
ChainLinked ==
    db # {} =>
        /\ Cardinality({b \in db : b.block_number = 1}) = 1
        /\ \A b \in db :
             IF b.block_number = 1 THEN b.previous_hash = NULL_HASH
             ELSE \E p \in db : /\ p.block_number = b.block_number - 1
                                /\ b.previous_hash = p.block_hash

\* C7: the block_number values in the store are exactly 1..n, with no gap and
\* no repetition.
NumbersContiguous ==
    /\ {b.block_number : b \in db} = 1..Cardinality(db)
    /\ \A b, c \in db : b.block_number = c.block_number => b = c

\* the rows b and c agree in every column other than verified and verified_at
SameBlock(b, c) ==
    [b EXCEPT !.verified = FALSE, !.verified_at = NULL_TIME]
      = [c EXCEPT !.verified = FALSE, !.verified_at = NULL_TIME]

AppendOnlyPolicy ==
    \A t \in Tasks :
        tasks[t].kind = "sql" =>
            LET s == tasks[t].req
                other == s.new.nonce # s.old.nonce \/ s.new.difficulty # s.old.difficulty
                flags == s.new.verified # s.old.verified
                           \/ s.new.verified_at # s.old.verified_at
            IN  /\ s.op = "DELETE" => tasks[t].status = "error" /\ s.old \in db
                /\ (s.op = "UPDATE" /\ other) => tasks[t].status = "error" /\ s.old \in db
                /\ (s.op = "UPDATE" /\ ~other /\ flags) =>
                      tasks[t].status = "ok" /\ s.new \in db

\* the table that holds exactly the blocks of a received chain
TableOf(newChain) == {InsertedByReplaceChain(newChain[i]) : i \in 1..Len(newChain)}

\* C10: when a node whose chain has n >= 1 blocks has handled a CHAIN message
\* with m > n blocks, its store and its in-memory chain are the received chain.
LongerChainReplaces ==
    [][\A t \in Tasks :
         ( /\ tasks[t].kind = "chain"
           /\ tasks[t].pc # "ignored"
           /\ tasks[t].blk.length >= 1
           /\ tasks'[t].pc = "idle" )
         => /\ db' = TableOf(tasks[t].req)
            /\ chain' = LoadMap(OrderByBlockNumber(TableOf(tasks[t].req)))]_vars

\* C11: a replaceChain whose candidate is no array, or is not longer than the
\* chain in memory (equal length included), returns at once and changes
\* neither the store nor the chain in memory.
CandidateIgnored ==
    [][\A t \in Tasks :
         /\ ( /\ tasks[t].pc = "idle"
              /\ tasks'[t].kind = "chain"
              /\ ~tasks'[t].blk.array \/ tasks'[t].blk.size <= Len(chain) )
            => tasks'[t].pc = "ignored" /\ db' = db /\ chain' = chain
         /\ (tasks[t].pc = "ignored" /\ tasks'[t] # tasks[t])
            => tasks'[t] = Idle /\ db' = db /\ chain' = chain]_vars

\* C11, its case: a candidate as long as the non-empty chain in memory has been
\* ignored
CandidateIgnoredWitness ==
    \E t \in Tasks :
        /\ tasks[t].kind = "chain" /\ tasks[t].pc = "ignored"
        /\ tasks[t].blk.array
        /\ tasks[t].blk.length >= 1
        /\ tasks[t].blk.size = tasks[t].blk.length

\* the rows a replaceChain at its INSERTs has deleted inside its transaction
DeletedBy(t) == {tasks[t].rows[i] : i \in 1..Len(tasks[t].rows)}

\* C12: every step of a replaceChain either leaves the store and the chain in
\* memory as they are (the DELETE, and the rollback after a rejected INSERT),
\* or is the COMMIT that puts every block of the candidate in the store at
\* once; no step leaves part of the candidate in the store.
ReplaceAtomic ==
    [][\A t \in Tasks :
         ( /\ tasks[t].kind = "chain"
           /\ tasks[t].pc \in {"delete", "inserts"}
           /\ tasks'[t] # tasks[t] )
         => \/ /\ db' = db /\ chain' = chain
               /\ tasks'[t].pc \in {"inserts", "idle"}
            \/ /\ tasks'[t].pc = "load"
               /\ db' = (db \ DeletedBy(t)) \cup TableOf(tasks[t].req)
               /\ chain' = chain]_vars

\* C12, its case: a replaceChain is at its INSERTs, one of them will be
\* rejected, and the INSERTs before it have written part of the candidate
ReplaceAtomicWitness ==
    \E t \in Tasks :
        /\ tasks[t].kind = "chain" /\ tasks[t].pc = "inserts"
        /\ ~InsertAll(db \ DeletedBy(t), tasks[t].req).ok
        /\ InsertAll(db \ DeletedBy(t), tasks[t].req).table # db

\* C13: when replaceChain commits, the store holds exactly the blocks of the
\* candidate, and when it returns with the store still holding exactly those,
\* the chain in memory is that sequence in block_number order.
ReplacedStoreIsCandidate ==
    [][\A t \in Tasks :
         /\ ( /\ tasks[t].kind = "chain"
              /\ tasks[t].pc = "inserts"
              /\ tasks'[t].pc = "load" )
            => db' = TableOf(tasks[t].req)
         /\ ( /\ tasks[t].kind = "chain"
              /\ tasks[t].pc = "assign"
              /\ tasks'[t] # tasks[t]
              /\ db = TableOf(tasks[t].req) )
            => chain' = LoadMap(OrderByBlockNumber(TableOf(tasks[t].req)))]_vars

\* the body names no active creator, or its signature does not verify under
\* the creator's key, or its block_hash lacks the leading zeros
FailsValidation(body) ==
    \/ body.creator_id \notin DOMAIN creators
    \/ ~creators[body.creator_id].is_active
    \/ SigFromHex(body.signature_hex).signer # creators[body.creator_id].public_key_pem
    \/ SigFromHex(body.signature_hex).msg # body.block_hash
    \/ \E i \in 1..body.difficulty : body.block_hash[i] # 0

\* C14: a commit that fails validation is answered with an error, appends
\* nothing, leaves the store and the chain in memory unchanged and sends no
\* BLOCK message.
RejectedCommitInert ==
    [][\A t \in Tasks :
         /\ ( /\ tasks[t].pc = "idle"
              /\ tasks'[t].kind = "commit"
              /\ FailsValidation(tasks'[t].req) )
            => /\ tasks'[t].pc = "respond"
               /\ tasks'[t].status \in CommitErrors
               /\ db' = db /\ chain' = chain /\ sent' = << >>
         /\ ( /\ tasks[t].kind = "commit"
              /\ tasks[t].pc = "respond"
              /\ tasks[t].status \in CommitErrors
              /\ tasks'[t] # tasks[t] )
            => /\ tasks'[t] = Idle
               /\ db' = db /\ chain' = chain /\ sent' = << >>]_vars

\* C14, its case: a commit whose signature was made with another key is being
\* answered with an error
RejectedCommitInertWitness ==
    \E t \in Tasks :
        /\ tasks[t].kind = "commit" /\ tasks[t].pc = "respond"
        /\ tasks[t].status = SignatureInvalid
        /\ tasks[t].req.creator_id = "c1"
        /\ SigFromHex(tasks[t].req.signature_hex).signer # "k1"

\* C15: an addBlock whose block_hash is already in the store finds the
\* conflict without an error, leaves the store as it is and broadcasts
\* nothing, and the commit that re-submitted the block is answered 200 with
\* the stored block.
DuplicateIdempotent ==
    [][\A t \in Tasks :
         /\ ( /\ tasks[t].pc = "insert"
              /\ Stored(tasks[t].blk.block_hash)
              /\ tasks'[t] # tasks[t] )
            => tasks'[t].pc = "conflict" /\ db' = db /\ sent' = << >>
         /\ ( /\ tasks[t].pc \in {"conflict", "reload", "reassign"}
              /\ tasks'[t] # tasks[t] )
            => /\ tasks'[t].pc \in {"reload", "reassign", "existing", "idle"}
               /\ db' = db /\ sent' = << >>
         /\ ( /\ tasks[t].kind = "commit"
              /\ tasks[t].pc = "existing"
              /\ Stored(tasks[t].req.block_hash)
              /\ tasks'[t] # tasks[t] )
            => /\ tasks'[t].pc = "respond" /\ tasks'[t].status = "200"
               /\ Len(tasks'[t].rows) = 1
               /\ tasks'[t].rows[1] \in db
               /\ tasks'[t].rows[1].block_hash = tasks[t].req.block_hash
               /\ db' = db /\ sent' = << >>]_vars

\* C15, its case: a commit re-submitted a stored block and is being answered
\* 200 with that block
DuplicateIdempotentWitness ==
    \E t \in Tasks :
        /\ tasks[t].kind = "commit" /\ tasks[t].pc = "respond"
        /\ tasks[t].status = "200"
        /\ Len(tasks[t].rows) = 1
        /\ tasks[t].rows[1].block_hash = tasks[t].req.block_hash
        /\ tasks[t].rows[1].block_number # ParseDec(tasks[t].blk.block_number)

\* C16: no two blocks in the store share a block_hash.
UniqueHashes ==
    \A b, c \in db : b.block_hash = c.block_hash => b = c

\* C16, its case: an INSERT of a block_hash the store already holds has run
UniqueHashesWitness ==
    \E t \in Tasks :
        /\ tasks[t].pc = "conflict"
        /\ Stored(tasks[t].blk.block_hash)
        /\ Cardinality(db) >= 2

\* C17: when addBlock returns true, the chain in memory contains the new
\* block and getLatestBlock() is the block with the greatest block_number in
\* the store; after a commit that made the store's only block, that block
\* has block_number 1 and is the tip.
TipAfterAppend ==
    [][\A t \in Tasks :
         ( /\ tasks[t].pc = "assign"
           /\ tasks[t].kind \in {"commit", "block"}
           /\ tasks'[t] # tasks[t] )
         => /\ \E i \in 1..Len(chain') :
                  chain'[i].block_hash = tasks[t].blk.block_hash
            /\ \A r \in db' :
                  r.block_number <= ParseDec(chain'[Len(chain')].block_number)
            /\ (tasks[t].kind = "commit" /\ Cardinality(db') = 1)
                  => /\ chain'[Len(chain')].block_number = DecDigits(1)
                     /\ chain'[Len(chain')].block_hash = tasks[t].blk.block_hash]_vars

\* C19: the blocks a tick has selected and not yet processed are in ascending
\* block_number order, so of two blocks of a batch the one with the smaller
\* block_number is verified first.
BatchAscending ==
    \A t \in Tasks :
        tasks[t].kind = "verify" =>
            \A i, j \in 1..Len(tasks[t].rows) :
                i < j => tasks[t].rows[i].block_number < tasks[t].rows[j].block_number

\* C20: for every block of a batch, once verifyBlock has given its outcome,
\* the tick writes the audit event of that block with that outcome.
AuditPerBlock ==
    [][\A t \in Tasks :
         /\ ( /\ tasks[t].kind = "verify"
              /\ tasks[t].pc = "update"
              /\ tasks'[t] # tasks[t] )
            => tasks'[t].pc = "audit"
         /\ ( /\ tasks[t].kind = "verify"
              /\ tasks[t].pc = "audit"
              /\ tasks'[t] # tasks[t] )
            => [block_hash |-> Head(tasks[t].rows).block_hash,
                event_type |-> "VERIFIED",
                verified   |-> tasks[t].status = "valid"] \in audit']_vars

\* C18: with ticks that keep occurring, a block in the store that is not
\* verified and passes the five checks is eventually verified, with
\* verified_at set, whatever else is pending.
PendingGetsVerified ==
    (\E r \in db : ~r.verified /\ verifyBlock(r, db))
    ~> (\A r \in db : verifyBlock(r, db) => r.verified /\ r.verified_at # NULL_TIME)

TickTouchesOnlyVerified ==
    [][\A t \in Tasks :
         ( tasks[t].kind = "verify" /\ tasks'[t] # tasks[t] )
         => /\ Cardinality(db') = Cardinality(db)
            /\ \A r \in db :
                  \/ r \in db'
                  \/ /\ r.block_hash = Head(tasks[t].rows).block_hash
                     /\ \E v \in BOOLEAN, a \in {NULL_TIME, VerifierNow} :
                           [r EXCEPT !.verified = v, !.verified_at = a] \in db']_vars

\* C22, its case: a tick has set verified and verified_at on a block
TickTouchesOnlyVerifiedWitness ==
    \E t \in Tasks :
        /\ tasks[t].kind = "verify" /\ tasks[t].pc = "audit"
        /\ \E r \in db : /\ r.block_hash = Head(tasks[t].rows).block_hash
                          /\ r.verified /\ r.verified_at = VerifierNow

\* C23: a block that enters the store, by a commit, a BLOCK message or a CHAIN
\* replacement, enters it with verified = false and no verified_at, and a
\* stored block becomes verified only by a step of this node's verifier.
EntersUnverified ==
    [][/\ \A r \in db' :
            (\A q \in db : q.block_hash # r.block_hash)
            => ~r.verified /\ r.verified_at = NULL_TIME
       /\ \A r \in db' :
            (r.verified /\ \E q \in db : q.block_hash = r.block_hash /\ ~q.verified)
            => \E t \in Tasks : /\ tasks[t].kind = "verify"
                                /\ tasks[t].pc = "update"
                                /\ tasks'[t] # tasks[t]]_vars

\* C24: prepare-mining leaves the store, the chain in memory and the peer
\* set as they are and sends nothing to the peers; for the name of an active
\* creator it answers with that creator, the block_hash of the tip of the
\* chain in memory, or the all-zero sentinel when the chain is empty, and the
\* configured difficulty; for any other name it fails with not-found.
PrepareReadsOnly ==
    [][\A t \in Tasks :
         /\ (tasks[t].pc = "idle" /\ tasks'[t].kind = "prepare")
            => /\ db' = db /\ chain' = chain /\ sockets' = sockets /\ sent' = << >>
               /\ tasks'[t].pc = "respond"
               /\ IF \E c \in DOMAIN creators :
                        /\ creators[c].display_name = tasks'[t].req.display_name
                        /\ creators[c].is_active
                    THEN /\ tasks'[t].status = "200"
                         /\ creators[tasks'[t].blk.creator_id].display_name
                               = tasks'[t].req.display_name
                         /\ tasks'[t].blk.public_key_pem
                               = creators[tasks'[t].blk.creator_id].public_key_pem
                         /\ tasks'[t].blk.previous_hash
                               = IF Len(chain) = 0 THEN Repeat(0, HashLen)
                                 ELSE chain[Len(chain)].block_hash
                         /\ tasks'[t].blk.difficulty = DIFFICULTY
                    ELSE tasks'[t].status = PrepareNotFound
         /\ (tasks[t].kind = "prepare" /\ tasks'[t] # tasks[t])
            => /\ tasks'[t] = Idle
               /\ db' = db /\ chain' = chain /\ sockets' = sockets /\ sent' = << >>]_vars

\* C24, its case: a prepare-mining is being answered with the sentinel, on an
\* empty chain, while a peer is connected
PrepareReadsOnlyWitness ==
    \E t \in Tasks :
        /\ tasks[t].kind = "prepare" /\ tasks[t].pc = "respond"
        /\ tasks[t].status = "200"
        /\ tasks[t].blk.previous_hash = GENESIS_HASH
        /\ Len(chain) = 0
        /\ Len(sockets) > 0

\* C25: a commit is answered 201 (appended), 200 (duplicate) or with an error
\* (rejected).  Its steps change the store only by the one INSERT of its
\* block, and hand the sockets a message only once, when addBlock has returned
\* true: then every socket of the peer set gets one BLOCK message with the
\* block.  It is answered 201 exactly when it went that way; a commit answered
\* 200 or with an error has added no block and sent nothing.
CommitOutcomes ==
    [][\A t \in Tasks :
         /\ (tasks[t].pc = "idle" /\ tasks'[t].kind = "commit")
            => /\ db' = db /\ sent' = << >>
               /\ tasks'[t].pc \in {"respond", "existing", "insert"}
               /\ tasks'[t].pc = "respond" => tasks'[t].status \in CommitErrors
         /\ (tasks[t].kind = "commit" /\ tasks'[t] # tasks[t])
            => /\ (db' # db) <=> (tasks[t].pc = "insert" /\ tasks'[t].pc = "load")
               /\ (db' # db)
                    => \E r \in db' \ db : /\ db' = db \cup {r}
                                            /\ r.block_hash = tasks[t].req.block_hash
               /\ sent' = IF tasks[t].pc = "assign"
                            THEN [i \in 1..Len(sockets) |->
                                    [to |-> sockets[i], type |-> "BLOCK",
                                     block |-> BlockToJSON(tasks[t].blk)]]
                          ELSE << >>
               /\ tasks[t].pc = "load" => tasks'[t].pc = "assign"
               /\ tasks[t].pc = "assign" => tasks'[t].pc = "name"
               /\ tasks'[t].pc = "name" => tasks[t].pc = "assign"
               /\ tasks'[t].pc = "assign" => tasks[t].pc = "load"
               /\ tasks'[t].pc = "load" => tasks[t].pc = "insert"
               /\ tasks'[t].pc = "respond"
                    => /\ tasks'[t].status \in {"200", "201"}
                       /\ (tasks'[t].status = "201") <=> (tasks[t].pc = "name")]_vars

\* C25, its case: addBlock has returned true to a commit and the connected
\* peer has just been handed the BLOCK message with its block
CommitOutcomesWitness ==
    \E t \in Tasks :
        /\ tasks[t].kind = "commit" /\ tasks[t].pc = "name"
        /\ Len(sent) = 1
        /\ sent[1].type = "BLOCK"
        /\ sent[1].block.block_hash = tasks[t].req.block_hash
        /\ Stored(tasks[t].req.block_hash)

\* C26: the handler of a BLOCK message hands the sockets a message only when
\* addBlock has inserted the block and returned true: then every socket of the
\* peer set at that moment gets one BLOCK message with the block as received.
\* A block whose INSERT met a conflict or was rejected is not sent on.
RebroadcastIffInserted ==
    [][\A t \in Tasks :
         /\ (tasks[t].pc = "idle" /\ tasks'[t].kind = "block")
            => db' = db /\ sent' = << >> /\ tasks'[t].pc = "insert"
         /\ (tasks[t].kind = "block" /\ tasks'[t] # tasks[t])
            => /\ sent' = IF tasks[t].pc = "assign"
                            THEN [i \in 1..Len(sockets) |->
                                    [to |-> sockets[i], type |-> "BLOCK",
                                     block |-> tasks[t].req]]
                          ELSE << >>
               /\ (tasks[t].pc = "assign") => tasks'[t] = Idle
               /\ (tasks'[t].pc = "assign") <=> (tasks[t].pc = "load")
               /\ (tasks'[t].pc = "load") <=> (db' # db)
               /\ (db' # db)
                    => /\ tasks[t].pc = "insert"
                       /\ \E r \in db' \ db : /\ db' = db \cup {r}
                                               /\ r.block_hash = tasks[t].req.block_hash]_vars

\* C26, its case: a block from a BLOCK message has been inserted and each of
\* two connected peers has just been handed it
RebroadcastIffInsertedWitness ==
    /\ Len(sent) = 2
    /\ sent[1].to # sent[2].to
    /\ \A i \in 1..2 : sent[i].type = "BLOCK" /\ Stored(sent[i].block.block_hash)

\* C27: the step in which a connection opens puts its socket at the end of
\* the peer set and hands it exactly one message, a CHAIN message with the
\* whole chain in memory; a CHAIN message is sent in no other step, and a BLOCK
\* message only goes to a socket that was in the peer set before the step, so
\* after the CHAIN message of that socket.
ChainOnConnect ==
    [][/\ \A s \in Sockets :
            ( /\ \A i \in 1..Len(sockets) : sockets[i] # s
              /\ \E i \in 1..Len(sockets') : sockets'[i] = s )
            => /\ sockets' = Append(sockets, s)
               /\ sent' = << [to |-> s, type |-> "CHAIN",
                              chain |-> [i \in 1..Len(chain) |-> BlockToJSON(chain[i])]] >>
       /\ \A i \in 1..Len(sent') :
            /\ sent'[i].type = "CHAIN"
                 => /\ \A j \in 1..Len(sockets) : sockets[j] # sent'[i].to
                    /\ \E j \in 1..Len(sockets') : sockets'[j] = sent'[i].to
            /\ sent'[i].type = "BLOCK"
                 => \E j \in 1..Len(sockets) : sockets[j] = sent'[i].to]_vars

\* C27, its case: a second connection has opened on a node whose chain holds
\* two blocks, and its socket has been handed the CHAIN message
ChainOnConnectWitness ==
    /\ Len(sockets) = 2
    /\ Len(sent) = 1
    /\ sent[1].type = "CHAIN"
    /\ sent[1].to = sockets[2]
    /\ Len(sent[1].chain) = 2

\* C28: the step in which a socket leaves the peer set removes that socket
\* and no other, keeps the order of the rest, and changes neither the store,
\* the chain in memory nor a handler in flight; a step that starts no handler
\* and moves none (a message the handler cannot use) and an addBlock whose
\* INSERT is refused change neither the store nor the chain; and every
\* message goes to a socket that is in the peer set at that step, so none to
\* a socket that has been removed.
SocketGoneOnly ==
    [][/\ \A s \in Sockets :
            ( /\ \E i \in 1..Len(sockets) : sockets[i] = s
              /\ \A i \in 1..Len(sockets') : sockets'[i] # s )
            => /\ sockets' = SelectSeq(sockets, LAMBDA x : x # s)
               /\ db' = db /\ chain' = chain /\ tasks' = tasks /\ sent' = << >>
       /\ (tasks' = tasks /\ sockets' = sockets) => (db' = db /\ chain' = chain)
       /\ \A t \in Tasks :
            ( /\ tasks[t].kind = "block" /\ tasks[t].pc = "insert"
              /\ tasks'[t] # tasks[t] /\ tasks'[t].pc # "load" )
            => (db' = db /\ chain' = chain)
       /\ \A i \in 1..Len(sent') :
            \/ \E j \in 1..Len(sockets) : sockets[j] = sent'[i].to
            \/ \E j \in 1..Len(sockets') : sockets'[j] = sent'[i].to]_vars

\* C28, its case: two peers are connected and the handler of a BLOCK message
\* is about to broadcast the block it has inserted: a socket that goes now
\* gets no message
SocketGoneOnlyWitness ==
    /\ Len(sockets) = 2
    /\ db # {}
    /\ \E t \in Tasks : tasks[t].kind = "block" /\ tasks[t].pc = "assign"

ChecksInOrder ==
    [][\A t \in Tasks :
         (tasks[t].kind = "commit" /\ tasks[t].pc = "arrived" /\ tasks'[t] # tasks[t])
         => LET body == tasks[t].req
                known == /\ body.creator_id \in DOMAIN creators
                         /\ creators[body.creator_id].is_active
                signed == /\ SigFromHex(body.signature_hex).signer
                               = creators[body.creator_id].public_key_pem
                          /\ SigFromHex(body.signature_hex).msg = body.block_hash
                mined == \A i \in 1..body.difficulty : body.block_hash[i] = 0
            IN  IF ~known
                  THEN tasks'[t].pc = "respond" /\ tasks'[t].status = CreatorMissing
                ELSE IF ~signed
                  THEN tasks'[t].pc = "respond" /\ tasks'[t].status = SignatureInvalid
                ELSE IF ~mined
                  THEN tasks'[t].pc = "respond" /\ tasks'[t].status = ProofOfWorkFailed
                ELSE tasks'[t].pc = "checked"]_vars

\* C30, its case: a commit of the active creator whose signature was made
\* with another key and whose block_hash lacks the leading zeros is being
\* answered with the signature error
ChecksInOrderWitness ==
    \E t \in Tasks :
        /\ tasks[t].kind = "commit" /\ tasks[t].pc = "respond"
        /\ tasks[t].status = SignatureInvalid
        /\ tasks[t].req.creator_id = "c1"
        /\ \E i \in 1..tasks[t].req.difficulty : tasks[t].req.block_hash[i] # 0

\* C31: the commit route refuses every body whose IV is not 16 bytes long and
\* every body whose ciphertext is shorter than 16 bytes: the request ends with
\* an error, and no row of the store has such an IV or such a ciphertext
MalformedRefused ==
    [][ /\ \A t \in Tasks :
             ( /\ tasks[t] = Idle
               /\ tasks'[t].kind = "commit"
               /\ \/ tasks'[t].req.data_iv_hex[1] # 2 * IvBytes
                  \/ tasks'[t].req.encrypted_data_hex[1] < 2 * MinCipherBytes )
             => /\ tasks'[t].pc = "respond"
                /\ tasks'[t].status \in CommitErrors \cup {ValidationFailed}
        /\ \A r \in db' :
             r.data_iv.len = IvBytes /\ r.encrypted_data.len >= MinCipherBytes ]_vars

\* C32: the verifier sets verified = true only for a block that passes the
\* five checks against the store of that moment: hash, proof of work, link to
\* the previous block, signature, and the sizes (IV of 16 bytes, wrapped key
\* of 256 bytes, ciphertext of at least 16 bytes, data_size within 128 of the
\* sum of the three lengths)
VerifiedOnlyIfChecked ==
    [][\A r \in db' :
          (r.verified /\ \E q \in db : q.block_hash = r.block_hash /\ ~q.verified)
          => LET q == CHOOSE q \in db : q.block_hash = r.block_hash
             IN  /\ calculateHash(buildHashInput(q)) = q.block_hash
                 /\ StartsWith(q.block_hash, Repeat(0, q.difficulty))
                 /\ verifyChainIntegrity(q, db)
                 /\ verifyDigitalSignature(q)
                 /\ q.data_iv.len = IvBytes
                 /\ q.encrypted_data_key.len = KeyBytes
                 /\ q.encrypted_data.len >= MinCipherBytes
                 /\ q.data_size - SizeTolerance
                      <= q.encrypted_data.len + q.data_iv.len + q.encrypted_data_key.len
                 /\ q.encrypted_data.len + q.data_iv.len + q.encrypted_data_key.len
                      <= q.data_size + SizeTolerance]_vars

\* C33: the number of rows of the store never goes down, whatever commits and
\* CHAIN messages are in flight together
StoreNeverShrinks ==
    [][Cardinality(db') >= Cardinality(db)]_vars

\* a CHAIN message is being handled on a node that holds two blocks, with a
\* candidate shorter than the store and longer than the chain in memory
StoreNeverShrinksWitness ==
    /\ Cardinality(db) = 2
    /\ \E t \in Tasks :
          /\ tasks[t].kind = "chain" /\ tasks[t].pc = "delete"
          /\ Len(tasks[t].req) < Cardinality(db)
    /\ \E t \in Tasks : tasks[t].kind = "commit"

\* C34: while no addBlock, replaceChain or loadChainFromDB call is in progress,
\* the chain in memory has the block_hash values of the store, in the order
\* of block_number
MemoryMatchesStore ==
    (\A t \in Tasks :
        /\ tasks[t].kind \notin {"block", "chain"}
        /\ tasks[t].pc \notin {"insert", "conflict", "load", "assign", "reload", "reassign"})
    => LET rows == OrderByBlockNumber(db)
       IN  /\ Len(chain) = Len(rows)
           /\ \A i \in 1..Len(rows) : chain[i].block_hash = rows[i].block_hash

\* C35: after the one commit of the cluster, no node broadcasts the block more
\* than once, and from some moment on no BLOCK message is in flight
GossipTerminates ==
    /\ [](\A n \in Nodes : cluster.casts[n] <= 1)
    /\ <>[](\A n \in Nodes : cluster.wire[n] = 0)

\* the block has gone round a cluster whose nodes all dial each other: every
\* node holds it and has broadcast it, and nothing is in flight any more
GossipTerminatesWitness ==
    /\ cluster.dials = Dials
    /\ cluster.block # NoBlock
    /\ \A n \in Nodes :
          /\ cluster.casts[n] = 1
          /\ cluster.wire[n] = 0
          /\ \E r \in cluster.stores[n] : r.block_hash = cluster.block.block_hash

\* C36: a commit that is answered with an error status has added no block
\* and broadcast none: the error is decided as the request is taken, before
\* addBlock, and a request that has added its block is answered with 201
ErrorMeansNothingAdded ==
    [][\A t \in Tasks :
          /\ ( /\ tasks'[t].kind = "commit" /\ tasks'[t].pc = "respond"
                /\ tasks[t].pc # "respond"
                /\ tasks'[t].status \notin {"200", "201"} )
             => (tasks[t] = Idle /\ db' = db /\ sent' = << >>)
          /\ ( /\ tasks[t].kind = "commit" /\ tasks[t].pc = "name"
                /\ tasks'[t] # tasks[t] )
             => (tasks'[t].pc = "respond" /\ tasks'[t].status = "201")]_vars

\* C37: the commit route refuses every body that declares a difficulty below
\* the configured DIFFICULTY, the one prepare-mining answers with, and every
\* block a commit has appended has a difficulty of at least DIFFICULTY
DifficultyEnforced ==
    [][ /\ \A t \in Tasks :
             ( /\ tasks[t] = Idle
               /\ tasks'[t].kind = "commit"
               /\ tasks'[t].req.difficulty < DIFFICULTY )
             => /\ tasks'[t].pc = "respond"
                /\ tasks'[t].status \in CommitErrors \cup {ValidationFailed}
        /\ \A t \in Tasks :
             (tasks[t].kind = "prepare" /\ tasks[t].status = "200")
             => tasks[t].blk.difficulty = DIFFICULTY
        /\ \A r \in db' : r.difficulty >= DIFFICULTY ]_vars

\* C38: a block the verifier has marked verified = true is never marked
\* verified = false again by the verifier
VerifiedStays ==
    [][\A t \in Tasks :
          (tasks[t].kind = "verify" /\ tasks[t].pc = "update")
          => \A r \in db : r.verified
                => \E q \in db' : q.block_hash = r.block_hash /\ q.verified]_vars

=============================================================================
